---- MODULE Spec2Model ----
(***************************************************************************)
(* A model of exitmap's command.py: the closure returned by                *)
(* run_python_over_tor, which monkey-patches socket.socket around a        *)
(* function call, and Command.execute / Command.invoke_process, which run  *)
(* a torsocks-wrapped command in a worker thread, read its output line by  *)
(* line, enqueue source-port events and enforce a timeout.                 *)
(***************************************************************************)
EXTENDS Integers, Sequences, FiniteSets, TLC

(* ---------- bounds ---------- *)

\* the longest output (in lines) a command writes
MaxLines == 2

(* ---------- values ---------- *)

\* Python's None, for fields that otherwise hold strings
None == "None"

\* the two socket constructors: the one the interpreter starts with and
\* torsocks.torsocket
OrigSocket == "socket"
TorSocket == "torsocket"

\* the threads that invoke a closure returned by run_python_over_tor
Closures == {"c1", "c2"}

\* run_python_over_tor(queue, circ_id, socks_port): the arguments each
\* closure was created with
ClosureArgs ==
    [c \in Closures |->
        [queue |-> "queue",
         circ_id |-> IF c = "c1" THEN "circ1" ELSE "circ2",
         socks_port |-> IF c = "c1" THEN 9051 ELSE 9052]]

\* what the wrapped function does: return, raise error.SOCKSv5Error, or
\* raise an exception of another class
FuncOutcomes == {"return", "SOCKSv5Error", "OtherError"}

\* Command(queue, circ_id, origsock): the arguments the Command instance was
\* constructed with
CommandArgs == [queue |-> "queue", circ_id |-> "circ0", origsock |-> OrigSocket]

\* a value that is None or a string of output: None, or the lines (by their
\* position in what the process wrote) the string is made of
PyNone == [isNone |-> TRUE, data |-> <<>>]
PyStr(lines) == [isNone |-> FALSE, data |-> lines]

\* an output line: either torsocks' report of a connection's source address,
\* "Connection on fd <fd> originating from <host>:<digits>", or other text
ConnLine(host, digits) == [conn |-> TRUE, host |-> host, digits |-> digits]
TextLine == [conn |-> FALSE, host |-> "", digits |-> <<>>]

\* the lines a command of the model writes: text, and reports with the port
\* 0 and with a port above 65535
LineSet ==
    {TextLine, ConnLine("10.0.0.1", <<0>>),
     ConnLine("example.org", <<6, 5, 5, 3, 6>>)}

\* what a command writes over its whole run
Scripts == UNION {[1 .. n -> LineSet] : n \in 0 .. MaxLines}

\* what output_callback(line, kill) does: return a true or a false value, or
\* raise error.SOCKSv5Error or an exception of another class
CallbackOutcomes == {"True", "False", "SOCKSv5Error", "OtherError"}

\* the longest run of digits the pattern of invoke_process captures,
\* ([0-9]{1,5})
MaxPortDigits == 5

VARIABLES
    socket,       \* socket.socket, the process-wide constructor
    torsocks,     \* the torsocks module's default proxy port, queue, circ_id
    cpc,          \* per closure thread: position in closure()
    orig_socket,  \* per closure thread: the local orig_socket
    cpre,         \* per closure thread: socket.socket when it was invoked
    cfunc,        \* per closure thread: how func(*args) ended
    self,         \* the Command instance: process, stdout, stderr,
                  \* output_callback; and the process self.stdout came from
    queue,        \* the events put on the queue, oldest first
    environ,      \* os.environ: TORSOCKS_CONF_FILE, TORSOCKS_LOG_LEVEL
    tmpfiles,     \* the temporary files that exist
    fd,           \* execute: the temporary file of this call
    mpc,          \* execute: position of the calling thread
    mexc,         \* execute: the exception it raised, if any
    ret,          \* execute: the pair it returned
    ncalls,       \* how many times execute has been called
    expired,      \* whether thread.join(timeout) returned on the timeout
    wpc,          \* invoke_process: position of the worker thread
    wexc,         \* the exception that ended the worker thread, if any
    line,         \* invoke_process: the line read last (its position)
    port,         \* invoke_process: the local port
    tmpsock,      \* invoke_process: the local tmpsock
    keep_reading, \* invoke_process: the local keep_reading
    pstate,       \* per process id: unborn, running, zombie or reaped
    penv,         \* the TORSOCKS_CONF_FILE the process was spawned with, and
                  \* whether that file existed then
    script,       \* the lines the command of this call writes over its run
    emitted,      \* how many lines the process has written
    pipe,         \* lines written and not yet read
    child,        \* a child process holding the output stream: none,
                  \* alive or gone
    log,          \* what happened during this call, in order
    other         \* position of a thread that calls execute on a second
                  \* Command instance

routerVars == <<socket, torsocks, cpc, orig_socket, cpre, cfunc>>
callerVars == <<fd, mpc, mexc, ret, ncalls, expired>>
workerVars == <<wpc, wexc, line, port, tmpsock, keep_reading>>
osVars == <<environ, tmpfiles, pstate, penv, script, emitted, pipe, child>>
commandVars == <<self, queue, callerVars, workerVars, osVars, log, other>>
vars == <<routerVars, commandVars>>

\* the process ids: the process of the first call of execute on the Command
\* instance and the process of a second call
Pids == {1, 2}

\* one entry of the log: a line read, an event put (with socket.socket at
\* that moment), a call of the callback (with its outcome), or a call of
\* kill (with what the handle was: None, or the state of its process)
Entry(op, l, res) == [op |-> op, line |-> l, res |-> res]

(* ---------- run_python_over_tor.closure ---------- *)

\* the closure is called
closure_call(c) ==
    /\ cpc[c] = "idle"
    /\ cpc' = [cpc EXCEPT ![c] = "l49"]
    /\ cpre' = [cpre EXCEPT ![c] = socket]
    /\ UNCHANGED <<socket, torsocks, orig_socket, cfunc>>
    /\ UNCHANGED commandVars

\* torsocks.set_default_proxy("127.0.0.1", socks_port)
closure_set_default_proxy(c) ==
    /\ cpc[c] = "l49"
    /\ torsocks' = [torsocks EXCEPT !.port = ClosureArgs[c].socks_port]
    /\ cpc' = [cpc EXCEPT ![c] = "l50"]
    /\ UNCHANGED <<socket, orig_socket, cpre, cfunc>>
    /\ UNCHANGED commandVars

\* torsocks.queue = queue
closure_set_queue(c) ==
    /\ cpc[c] = "l50"
    /\ torsocks' = [torsocks EXCEPT !.queue = ClosureArgs[c].queue]
    /\ cpc' = [cpc EXCEPT ![c] = "l51"]
    /\ UNCHANGED <<socket, orig_socket, cpre, cfunc>>
    /\ UNCHANGED commandVars

\* torsocks.circ_id = circ_id
closure_set_circ_id(c) ==
    /\ cpc[c] = "l51"
    /\ torsocks' = [torsocks EXCEPT !.circ_id = ClosureArgs[c].circ_id]
    /\ cpc' = [cpc EXCEPT ![c] = "l53"]
    /\ UNCHANGED <<socket, orig_socket, cpre, cfunc>>
    /\ UNCHANGED commandVars

\* orig_socket = socket.socket
closure_save_socket(c) ==
    /\ cpc[c] = "l53"
    /\ orig_socket' = [orig_socket EXCEPT ![c] = socket]
    /\ cpc' = [cpc EXCEPT ![c] = "l54"]
    /\ UNCHANGED <<socket, torsocks, cpre, cfunc>>
    /\ UNCHANGED commandVars

\* socket.socket = torsocks.torsocket
closure_install(c) ==
    /\ cpc[c] = "l54"
    /\ socket' = TorSocket
    /\ cpc' = [cpc EXCEPT ![c] = "l57"]
    /\ UNCHANGED <<torsocks, orig_socket, cpre, cfunc>>
    /\ UNCHANGED commandVars

\* the except clause of the try around func(*args): an error.SOCKSv5Error
\* is logged and the closure returns; any other exception leaves the closure
closure_except_all(outcome) ==
    IF outcome = "return" THEN "l62" ELSE "returned"

closure_except(outcome) ==
    CASE outcome = "return" -> "l62"
      [] outcome = "SOCKSv5Error" -> "returned"
      [] OTHER -> "raised"

\* try: func(*args) except error.SOCKSv5Error: logger.info(err); return
closure_func(c) ==
    /\ cpc[c] = "l57"
    /\ \E outcome \in FuncOutcomes :
        /\ cfunc' = [cfunc EXCEPT ![c] = outcome]
        /\ cpc' = [cpc EXCEPT ![c] = closure_except(outcome)]
    /\ UNCHANGED <<socket, torsocks, orig_socket, cpre>>
    /\ UNCHANGED commandVars

\* socket.socket = orig_socket, and the closure returns
closure_restore(c) ==
    /\ cpc[c] = "l62"
    /\ socket' = orig_socket[c]
    /\ cpc' = [cpc EXCEPT ![c] = "returned"]
    /\ UNCHANGED <<torsocks, orig_socket, cpre, cfunc>>
    /\ UNCHANGED commandVars

(* ---------- the process and its output stream ---------- *)

\* the process of the current call
CurPid == ncalls

\* the read end of the output stream is at end-of-file: nothing is left to
\* read and no process holds the write end
AtEOF ==
    /\ pipe = <<>>
    /\ pstate[CurPid] # "running"
    /\ child # "alive"

\* what self.process is: None, or the state of the process it stands for
Handle == IF self.process = 0 THEN None ELSE pstate[self.process]

\* SIGKILL sent to process p: a running process ends, a zombie stays one
Killed(p) == [pstate EXCEPT ![p] = IF @ = "running" THEN "zombie" ELSE @]

\* the process writes its next line
proc_write ==
    /\ ncalls > 0
    /\ pstate[CurPid] = "running"
    /\ emitted < Len(script)
    /\ emitted' = emitted + 1
    /\ pipe' = Append(pipe, emitted + 1)
    /\ UNCHANGED <<routerVars, self, queue, callerVars, workerVars, log>>
    /\ UNCHANGED <<environ, tmpfiles, pstate, penv, script, child>>
    /\ UNCHANGED other

\* a process exits on its own: the process of this call once it has written
\* all its output, a process left over from an earlier call at any time; a
\* command that does not terminate never takes this step
proc_exit(p) ==
    /\ pstate[p] = "running"
    /\ p = CurPid => emitted = Len(script)
    /\ pstate' = [pstate EXCEPT ![p] = "zombie"]
    /\ UNCHANGED <<routerVars, self, queue, callerVars, workerVars, log>>
    /\ UNCHANGED <<environ, tmpfiles, penv, script, emitted, pipe,
                   child>>
    /\ UNCHANGED other

\* the child process that holds the output stream exits
child_exit ==
    /\ child = "alive"
    /\ child' = "gone"
    /\ UNCHANGED <<routerVars, self, queue, callerVars, workerVars, log>>
    /\ UNCHANGED <<environ, tmpfiles, pstate, penv, script,
                   emitted, pipe>>
    /\ UNCHANGED other

(* ---------- Command.execute ---------- *)

\* execute(command, timeout, output_callback) is called for the k-th time:
\* the command is given by what it writes;
\* self.output_callback = output_callback
Call(k) ==
    /\ \E s \in Scripts, cb \in BOOLEAN :
        /\ script' = s
        /\ self' = [self EXCEPT !.output_callback = cb]
    /\ ncalls' = k
    /\ mpc' = "l152"
    /\ mexc' = None
    /\ ret' = <<PyNone, PyNone>>
    /\ expired' = FALSE
    /\ emitted' = 0
    /\ pipe' = <<>>
    /\ child' = "none"
    /\ wpc' = "unstarted"
    /\ wexc' = None
    /\ line' = 0
    /\ port' = <<>>
    /\ tmpsock' = None
    /\ keep_reading' = TRUE
    /\ log' = <<>>
    /\ UNCHANGED <<routerVars, queue, fd, environ, tmpfiles, pstate, penv>>
    /\ UNCHANGED other

\* the first call of execute on the Command instance
execute_call ==
    /\ mpc = "idle"
    /\ Call(1)

\* a second call of execute on the same Command instance, after the first
\* has returned
execute_again ==
    /\ mpc = "returned"
    /\ ncalls = 1
    /\ Call(2)

\* with tempfile.NamedTemporaryFile(prefix="torsocks_") as fd
execute_tempfile ==
    /\ mpc = "l152"
    /\ fd' = ncalls
    /\ tmpfiles' = tmpfiles \cup {ncalls}
    /\ mpc' = "l154"
    /\ UNCHANGED <<routerVars, self, queue, workerVars, log>>
    /\ UNCHANGED <<mexc, ret, ncalls, expired>>
    /\ UNCHANGED <<environ, pstate, penv, script, emitted, pipe,
                   child>>
    /\ UNCHANGED other

\* os.environ["TORSOCKS_CONF_FILE"] = fd.name
\* os.environ["TORSOCKS_LOG_LEVEL"] = "5"
execute_environ ==
    /\ mpc = "l154"
    /\ environ' = [TORSOCKS_CONF_FILE |-> fd, TORSOCKS_LOG_LEVEL |-> "5"]
    /\ mpc' = "l157"
    /\ UNCHANGED <<routerVars, self, queue, workerVars, log>>
    /\ UNCHANGED <<fd, mexc, ret, ncalls, expired>>
    /\ UNCHANGED <<tmpfiles, pstate, penv, script, emitted, pipe,
                   child>>
    /\ UNCHANGED other

\* thread = threading.Thread(target=self.invoke_process, args=(command,))
\* thread.start()
execute_thread_start ==
    /\ mpc = "l157"
    /\ wpc' = "l94"
    /\ mpc' = "l161"
    /\ UNCHANGED <<routerVars, self, queue, osVars, log>>
    /\ UNCHANGED <<fd, mexc, ret, ncalls, expired>>
    /\ UNCHANGED <<wexc, line, port, tmpsock, keep_reading>>
    /\ UNCHANGED other

\* thread.join(timeout) returns because the worker has ended
execute_join_ended ==
    /\ mpc = "l161"
    /\ wpc = "dead"
    /\ mpc' = "l162"
    /\ UNCHANGED <<routerVars, self, queue, workerVars, osVars, log>>
    /\ UNCHANGED <<fd, mexc, ret, ncalls, expired>>
    /\ UNCHANGED other

\* thread.join(timeout) returns because the timeout has expired
execute_join_expired ==
    /\ mpc = "l161"
    /\ wpc # "dead"
    /\ expired' = TRUE
    /\ mpc' = "l162"
    /\ UNCHANGED <<routerVars, self, queue, workerVars, osVars, log>>
    /\ UNCHANGED <<fd, mexc, ret, ncalls>>
    /\ UNCHANGED other

\* the with block is left: the temporary file is removed
execute_with_exit ==
    /\ mpc = "l162"
    /\ tmpfiles' = tmpfiles \ {fd}
    /\ mpc' = "l165"
    /\ UNCHANGED <<routerVars, self, queue, workerVars, log>>
    /\ UNCHANGED <<fd, mexc, ret, ncalls, expired>>
    /\ UNCHANGED <<environ, pstate, penv, script, emitted, pipe,
                   child>>
    /\ UNCHANGED other

\* if thread.is_alive()
execute_is_alive ==
    /\ mpc = "l165"
    /\ mpc' = IF wpc # "dead" THEN "l167" ELSE "l170"
    /\ UNCHANGED <<routerVars, self, queue, workerVars, osVars, log>>
    /\ UNCHANGED <<fd, mexc, ret, ncalls, expired>>
    /\ UNCHANGED other

\* self.process.kill(): an AttributeError when self.process is None; the
\* signal is sent when the process has not been waited for; after it has
\* been waited for, an OSError (no such process) or nothing, depending on
\* the interpreter
execute_kill ==
    /\ mpc = "l167"
    /\ log' = Append(log, Entry("kill", 0, Handle))
    /\ \/ /\ self.process = 0
          /\ mexc' = "AttributeError"
          /\ mpc' = "raised"
          /\ UNCHANGED pstate
       \/ /\ self.process # 0
          /\ pstate[self.process] # "reaped"
          /\ pstate' = Killed(self.process)
          /\ mpc' = "l168"
          /\ UNCHANGED mexc
       \/ /\ self.process # 0
          /\ pstate[self.process] = "reaped"
          /\ \/ mexc' = "OSError" /\ mpc' = "raised"
             \/ mpc' = "l168" /\ UNCHANGED mexc
          /\ UNCHANGED pstate
    /\ UNCHANGED <<routerVars, self, queue, workerVars>>
    /\ UNCHANGED <<fd, ret, ncalls, expired>>
    /\ UNCHANGED <<environ, tmpfiles, penv, script, emitted, pipe,
                   child>>
    /\ UNCHANGED other

\* thread.join()
execute_join ==
    /\ mpc = "l168"
    /\ wpc = "dead"
    /\ mpc' = "l170"
    /\ UNCHANGED <<routerVars, self, queue, workerVars, osVars, log>>
    /\ UNCHANGED <<fd, mexc, ret, ncalls, expired>>
    /\ UNCHANGED other

\* return self.stdout, self.stderr
execute_return ==
    /\ mpc = "l170"
    /\ ret' = <<self.stdout, self.stderr>>
    /\ mpc' = "returned"
    /\ UNCHANGED <<routerVars, self, queue, workerVars, osVars, log>>
    /\ UNCHANGED <<fd, mexc, ncalls, expired>>
    /\ UNCHANGED other

(* ---------- Command.execute on a second instance ---------- *)

\* the temporary file of the second instance's call
OtherFile == 3

\* with tempfile.NamedTemporaryFile(prefix="torsocks_") as fd
other_tempfile ==
    /\ other = "idle"
    /\ tmpfiles' = tmpfiles \cup {OtherFile}
    /\ other' = "l154"
    /\ UNCHANGED <<routerVars, self, queue, callerVars, workerVars, log>>
    /\ UNCHANGED <<environ, pstate, penv, script, emitted, pipe, child>>

\* os.environ["TORSOCKS_CONF_FILE"] = fd.name
\* os.environ["TORSOCKS_LOG_LEVEL"] = "5"
other_environ ==
    /\ other = "l154"
    /\ environ' = [TORSOCKS_CONF_FILE |-> OtherFile, TORSOCKS_LOG_LEVEL |-> "5"]
    /\ other' = "l161"
    /\ UNCHANGED <<routerVars, self, queue, callerVars, workerVars, log>>
    /\ UNCHANGED <<tmpfiles, pstate, penv, script, emitted, pipe, child>>

\* its worker has been started and joined; the with block is left and the
\* temporary file is removed
other_with_exit ==
    /\ other = "l161"
    /\ tmpfiles' = tmpfiles \ {OtherFile}
    /\ other' = "done"
    /\ UNCHANGED <<routerVars, self, queue, callerVars, workerVars, log>>
    /\ UNCHANGED <<environ, pstate, penv, script, emitted, pipe, child>>

(* ---------- Command.invoke_process ---------- *)

\* util.extract_pattern(line, pattern) for the pattern of invoke_process:
\* the digits captured after "<host>:", at most MaxPortDigits of them, or
\* nothing when the line does not match
RECURSIVE Take(_, _)
Take(s, n) == IF n = 0 \/ s = <<>> THEN <<>> ELSE <<Head(s)>> \o Take(Tail(s), n - 1)

extract_pattern(l) == IF l.conn THEN Take(l.digits, MaxPortDigits) ELSE <<>>

\* int(port)
RECURSIVE int(_)
int(digits) ==
    IF digits = <<>> THEN 0
    ELSE int(SubSeq(digits, 1, Len(digits) - 1)) * 10 + digits[Len(digits)]

\* if port: a match object's group is a non-empty string, which is true
if_port_never(p) == FALSE

if_port_nonzero(p) == p # <<>> /\ p # <<0>>

if_port(p) == p # <<>>

\* while keep_reading
while_keep_reading_always(k) == TRUE

while_keep_reading(k) == k

\* self.process = subprocess.Popen(command, env=os.environ, ...): the process
\* is spawned, with or without a child that shares its output stream, or
\* Popen raises OSError and the worker thread ends
invoke_Popen ==
    /\ wpc = "l94"
    /\ \/ /\ self' = [self EXCEPT !.process = CurPid]
          /\ pstate' = [pstate EXCEPT ![CurPid] = "running"]
          /\ penv' = [conf |-> environ.TORSOCKS_CONF_FILE,
                      exists |-> environ.TORSOCKS_CONF_FILE \in tmpfiles]
          /\ \E ch \in {"none", "alive"} : child' = ch
          /\ wpc' = "l101"
          /\ UNCHANGED wexc
       \/ /\ wexc' = "OSError"
          /\ wpc' = "exiting"
          /\ UNCHANGED <<self, pstate, penv, child>>
    /\ UNCHANGED <<routerVars, queue, callerVars, log>>
    /\ UNCHANGED <<line, port, tmpsock, keep_reading>>
    /\ UNCHANGED <<environ, tmpfiles, script, emitted, pipe>>
    /\ UNCHANGED other

\* if self.output_callback: keep_reading = True
invoke_if_callback ==
    /\ wpc = "l101"
    /\ keep_reading' = TRUE
    /\ wpc' = IF self.output_callback THEN "l109" ELSE "l136"
    /\ UNCHANGED <<routerVars, self, queue, callerVars, osVars, log>>
    /\ UNCHANGED <<wexc, line, port, tmpsock>>
    /\ UNCHANGED other

\* line = self.process.stdout.readline(): the next line, or end-of-file and
\* the loop is left; port = util.extract_pattern(line, pattern); if port
invoke_readline ==
    /\ wpc = "l109"
    /\ \/ /\ pipe # <<>>
          /\ line' = Head(pipe)
          /\ pipe' = Tail(pipe)
          /\ port' = extract_pattern(script[Head(pipe)])
          /\ wpc' = IF if_port(extract_pattern(script[Head(pipe)]))
                    THEN "l127" ELSE "l132"
          /\ log' = Append(log, Entry("read", Head(pipe), None))
       \/ /\ AtEOF
          /\ wpc' = "l136"
          /\ UNCHANGED <<line, port, pipe, log>>
    /\ UNCHANGED <<routerVars, self, queue, callerVars>>
    /\ UNCHANGED <<wexc, tmpsock, keep_reading>>
    /\ UNCHANGED <<environ, tmpfiles, pstate, penv, script,
                   emitted, child>>
    /\ UNCHANGED other

\* tmpsock = socket.socket
invoke_save_socket ==
    /\ wpc = "l127"
    /\ tmpsock' = socket
    /\ wpc' = "l128"
    /\ UNCHANGED <<routerVars, self, queue, callerVars, osVars, log>>
    /\ UNCHANGED <<wexc, line, port, keep_reading>>
    /\ UNCHANGED other

\* socket.socket = self.origsocket
invoke_set_origsocket ==
    /\ wpc = "l128"
    /\ socket' = CommandArgs.origsock
    /\ wpc' = "l129"
    /\ UNCHANGED <<torsocks, cpc, orig_socket, cpre, cfunc>>
    /\ UNCHANGED <<self, queue, callerVars, osVars, log>>
    /\ UNCHANGED <<wexc, line, port, tmpsock, keep_reading>>
    /\ UNCHANGED other

\* self.queue.put([self.circ_id, ("127.0.0.1", int(port))])
invoke_put ==
    /\ wpc = "l129"
    /\ queue' = Append(queue, [circ_id |-> CommandArgs.circ_id,
                               addr |-> "127.0.0.1",
                               port |-> int(port)])
    /\ log' = Append(log, Entry("put", line, socket))
    /\ wpc' = "l130"
    /\ UNCHANGED <<routerVars, self, callerVars, osVars>>
    /\ UNCHANGED <<wexc, line, port, tmpsock, keep_reading>>
    /\ UNCHANGED other

\* socket.socket = tmpsock
invoke_restore_socket ==
    /\ wpc = "l130"
    /\ socket' = tmpsock
    /\ wpc' = "l132"
    /\ UNCHANGED <<torsocks, cpc, orig_socket, cpre, cfunc>>
    /\ UNCHANGED <<self, queue, callerVars, osVars, log>>
    /\ UNCHANGED <<wexc, line, port, tmpsock, keep_reading>>
    /\ UNCHANGED other

\* keep_reading = self.output_callback(line, self.process.kill): the callback
\* may call kill; it returns a value that is true or false, or raises, which
\* ends the worker thread; on a true value the loop goes on
invoke_callback ==
    /\ wpc = "l132"
    /\ \E outcome \in CallbackOutcomes, kills \in BOOLEAN :
        /\ log' = (IF kills THEN Append(log, Entry("kill", line, Handle))
                   ELSE log) \o <<Entry("cb", line, outcome)>>
        /\ pstate' = IF kills THEN Killed(self.process) ELSE pstate
        /\ IF outcome \in {"True", "False"}
           THEN /\ keep_reading' = (outcome = "True")
                /\ wpc' = IF while_keep_reading(outcome = "True")
                          THEN "l109" ELSE "l136"
                /\ UNCHANGED wexc
           ELSE /\ wexc' = outcome
                /\ wpc' = "exiting"
                /\ UNCHANGED keep_reading
    /\ UNCHANGED <<routerVars, self, queue, callerVars>>
    /\ UNCHANGED <<line, port, tmpsock>>
    /\ UNCHANGED <<environ, tmpfiles, penv, script, emitted, pipe,
                   child>>
    /\ UNCHANGED other

\* self.stdout, self.stderr = self.process.communicate(): reads the stream
\* to end-of-file and waits for the process; stderr is not a pipe
invoke_communicate ==
    /\ wpc = "l136"
    /\ pstate[self.process] # "running"
    /\ child # "alive"
    /\ self' = [self EXCEPT !.stdout = PyStr(pipe), !.stderr = PyNone,
                          !.stdout_pid = self.process]
    /\ pipe' = <<>>
    /\ pstate' = [pstate EXCEPT ![self.process] = "reaped"]
    /\ wpc' = "exiting"
    /\ UNCHANGED <<routerVars, queue, callerVars, log>>
    /\ UNCHANGED <<wexc, line, port, tmpsock, keep_reading>>
    /\ UNCHANGED <<environ, tmpfiles, penv, script, emitted,
                   child>>
    /\ UNCHANGED other

\* invoke_process has returned or raised: the worker thread ends
worker_exit ==
    /\ wpc = "exiting"
    /\ wpc' = "dead"
    /\ UNCHANGED <<routerVars, self, queue, callerVars, osVars, log>>
    /\ UNCHANGED <<wexc, line, port, tmpsock, keep_reading>>
    /\ UNCHANGED other

(* ---------- specifications ---------- *)

CommandInit ==
    /\ self = [process |-> 0, stdout |-> PyNone, stderr |-> PyNone,
               output_callback |-> FALSE, stdout_pid |-> 0]
    /\ queue = <<>>
    /\ environ = [TORSOCKS_CONF_FILE |-> 0, TORSOCKS_LOG_LEVEL |-> None]
    /\ tmpfiles = {}
    /\ fd = 0
    /\ mpc = "idle"
    /\ mexc = None
    /\ ret = <<PyNone, PyNone>>
    /\ ncalls = 0
    /\ expired = FALSE
    /\ wpc = "unstarted"
    /\ wexc = None
    /\ line = 0
    /\ port = <<>>
    /\ tmpsock = None
    /\ keep_reading = TRUE
    /\ pstate = [p \in Pids |-> "unborn"]
    /\ penv = [conf |-> 0, exists |-> FALSE]
    /\ script = <<>>
    /\ emitted = 0
    /\ pipe = <<>>
    /\ child = "none"
    /\ log = <<>>
    /\ other = "idle"

RouterInit ==
    /\ socket = OrigSocket
    /\ torsocks = [port |-> 0, queue |-> None, circ_id |-> None]
    /\ cpc = [c \in Closures |-> "idle"]
    /\ orig_socket = [c \in Closures |-> None]
    /\ cpre = [c \in Closures |-> None]
    /\ cfunc = [c \in Closures |-> None]

Init == RouterInit /\ CommandInit

\* the threads that call closures
closure ==
    \/ \E c \in Closures : closure_call(c)
    \/ \E c \in Closures : closure_set_default_proxy(c)
    \/ \E c \in Closures : closure_set_queue(c)
    \/ \E c \in Closures : closure_set_circ_id(c)
    \/ \E c \in Closures : closure_save_socket(c)
    \/ \E c \in Closures : closure_install(c)
    \/ \E c \in Closures : closure_func(c)
    \/ \E c \in Closures : closure_restore(c)

RouterNext == closure

\* the thread that calls execute
execute ==
    \/ execute_call
    \/ execute_tempfile
    \/ execute_environ
    \/ execute_thread_start
    \/ execute_join_ended
    \/ execute_join_expired
    \/ execute_with_exit
    \/ execute_is_alive
    \/ execute_kill
    \/ execute_join
    \/ execute_return

\* the worker thread
invoke_process ==
    \/ invoke_Popen
    \/ invoke_if_callback
    \/ invoke_readline
    \/ invoke_save_socket
    \/ invoke_set_origsocket
    \/ invoke_put
    \/ invoke_restore_socket
    \/ invoke_callback
    \/ invoke_communicate
    \/ worker_exit

\* the spawned processes
Environment ==
    \/ proc_write
    \/ \E p \in Pids : proc_exit(p)
    \/ child_exit

CommandNext == execute \/ invoke_process \/ Environment

Next == RouterNext \/ CommandNext

\* everything together
Spec == Init /\ [][Next]_vars

\* the closures alone
SpecRouter == Init /\ [][RouterNext]_vars

\* one Command alone, execute called once
SpecCommand == Init /\ [][CommandNext]_vars

\* one Command alone, execute called once or twice
SpecReuse == Init /\ [][CommandNext \/ execute_again]_vars

\* one Command, execute called once, and one thread that calls a closure
closure_c1 ==
    \/ closure_call("c1")
    \/ closure_set_default_proxy("c1")
    \/ closure_set_queue("c1")
    \/ closure_set_circ_id("c1")
    \/ closure_save_socket("c1")
    \/ closure_install("c1")
    \/ closure_func("c1")
    \/ closure_restore("c1")

SpecSwap == Init /\ [][CommandNext \/ closure_c1]_vars

\* one Command, execute called once, and a thread that calls execute on a
\* second Command instance: its steps that touch the environment and the
\* temporary files
other_execute ==
    \/ other_tempfile
    \/ other_environ
    \/ other_with_exit

SpecTwo == Init /\ [][CommandNext \/ other_execute]_vars

\* one Command alone, where every thread that can take a step eventually
\* takes one and thread.join(timeout) returns at the latest when the timeout
\* expires; nothing makes a process write, exit or lose its child
executeSteps ==
    \/ execute_tempfile
    \/ execute_environ
    \/ execute_thread_start
    \/ execute_join_ended
    \/ execute_join_expired
    \/ execute_with_exit
    \/ execute_is_alive
    \/ execute_kill
    \/ execute_join
    \/ execute_return

FairCommand ==
    SpecCommand /\ WF_vars(executeSteps) /\ WF_vars(invoke_process)

(* ---------- properties ---------- *)

\* the positions in the log of the entries of one kind
Entries(op) == {i \in DOMAIN log : log[i].op = op}

\* the call of execute is over
Finished == mpc \in {"returned", "raised"}

\* the events put on the queue during this call
CallEvents ==
    SubSeq(queue, Len(queue) - Cardinality(Entries("put")) + 1, Len(queue))

\* the events of the port-disclosure lines of a script, in its order
RECURSIVE EventsOf(_)
EventsOf(s) ==
    IF s = <<>> THEN <<>>
    ELSE (IF Head(s).conn
          THEN <<[circ_id |-> CommandArgs.circ_id, addr |-> "127.0.0.1",
                  port |-> int(Head(s).digits)]>>
          ELSE <<>>) \o EventsOf(Tail(s))

\* C1: once a closure has returned or raised, and no other closure has been
\* called, socket.socket is the constructor it was when the closure was called
C1_SocketRestored ==
    \A c \in Closures :
        (/\ cpc[c] \in {"returned", "raised"}
         /\ \A d \in Closures \ {c} : cpc[d] = "idle")
        => socket = cpre[c]

\* C2: every call of execute that has started its worker is eventually over
C2_ExecuteReturns == (mpc = "l161") ~> Finished

\* C3: a call of execute whose timeout expired raises no exception
C3_TimeoutNoRaise == expired => (mpc # "raised" /\ mexc = None)

\* C4: when Popen raised in the worker, execute does not return normally
C4_SpawnFailurePropagates == wexc = "OSError" => mpc # "returned"

\* C5: when execute has returned without a timeout, nobody has killed the
\* process and every call of the callback returned true, the process has
\* written all its lines and the events of this call are those of the
\* port-disclosure lines, in the order written
C5_EventPerDisclosure ==
    (/\ mpc = "returned"
     /\ ~expired
     /\ wexc = None
     /\ Entries("kill") = {}
     /\ \A i \in Entries("cb") : log[i].res = "True")
    => /\ emitted = Len(script)
       /\ CallEvents = EventsOf(script)

\* C6: when execute has returned without a timeout, nobody has killed the
\* process and the worker ended without an exception, the returned stdout has
\* every line the process wrote
C6_FullOutput ==
    (/\ mpc = "returned"
     /\ ~expired
     /\ Entries("kill") = {}
     /\ wexc = None)
    => /\ ~ret[1].isNone
       /\ \A l \in 1 .. emitted : \E k \in DOMAIN ret[1].data : ret[1].data[k] = l

\* C7: after a call of the callback that returned false, no line is read, no
\* event is put and the callback is not called
C7_StopAfterFalse ==
    \A i \in Entries("cb") :
        log[i].res = "False" =>
            /\ \A j \in DOMAIN log : j > i => log[j].op = "kill"
            /\ wpc \in {"l136", "exiting", "dead"}

C7_Witness ==
    /\ wpc = "dead"
    /\ emitted = Len(script)
    /\ \E i \in Entries("cb") : log[i].res = "False" /\ log[i].line < Len(script)

\* C8: the lines are read in the order written; the event of a
\* port-disclosure line is put after the line was read and before the callback
\* is called with it; a line is read after the callback was called with the
\* line before it
C8_Ordering ==
    /\ \A i \in Entries("read") :
        /\ log[i].line = Cardinality({j \in Entries("read") : j <= i})
        /\ log[i].line > 1 =>
            \E j \in Entries("cb") : j < i /\ log[j].line = log[i].line - 1
    /\ \A i \in Entries("put") :
        \E j \in Entries("read") : j < i /\ log[j].line = log[i].line
    /\ \A i \in Entries("cb") :
        /\ \E j \in Entries("read") : j < i /\ log[j].line = log[i].line
        /\ script[log[i].line].conn =>
            \E j \in Entries("put") : j < i /\ log[j].line = log[i].line

C8_Witness ==
    /\ \E i \in Entries("cb") : log[i].line = 2 /\ script[2].conn
    /\ \E i \in Entries("put") : log[i].line = 1

C10_ClosureExceptions ==
    \A c \in Closures :
        /\ cfunc[c] = "SOCKSv5Error" => cpc[c] = "returned"
        /\ cfunc[c] = "OtherError" => cpc[c] = "raised"
        /\ cpc[c] = "raised" => cfunc[c] = "OtherError"

C10_Witness ==
    \E c, d \in Closures :
        /\ cfunc[c] = "SOCKSv5Error" /\ cpc[c] = "returned"
        /\ cfunc[d] = "OtherError" /\ cpc[d] = "raised"

\* the closure's override is in place: socket.socket = torsocks.torsocket has
\* run and socket.socket = orig_socket has not
Installed(c) == cpc[c] \in {"l57", "l62"}

\* C11: no two closures have their override in place at the same time, and
\* once every closure has been called and has returned after its function
\* returned, socket.socket is the original constructor
C11_Serialized ==
    /\ \A c, d \in Closures : (Installed(c) /\ Installed(d)) => c = d
    /\ (\A c \in Closures : cpc[c] = "returned" /\ cfunc[c] = "return")
       => socket = OrigSocket

\* C14: while the function of a closure runs, the proxy port, queue and
\* circ_id of torsocks are the ones the closure was created with
C14_RouterStateIsOwn ==
    \A c \in Closures :
        cpc[c] = "l57" =>
            torsocks = [port |-> ClosureArgs[c].socks_port,
                        queue |-> ClosureArgs[c].queue,
                        circ_id |-> ClosureArgs[c].circ_id]

\* C12: while the process of this call runs, the temporary file of this call
\* exists
C12_TempFileLifetime ==
    (ncalls > 0 /\ pstate[CurPid] = "running") => CurPid \in tmpfiles

\* C15: after execute has killed the process, no line is read
C15_NoReadAfterKill ==
    \A i \in Entries("kill") :
        (log[i].line = 0 /\ log[i].res \in {"running", "zombie"}) =>
            \A j \in Entries("read") : j < i

\* C19: execute calls kill only on a handle that is not None and whose
\* process has not been waited for
C19_KillOnLiveHandle ==
    \A i \in Entries("kill") :
        log[i].line = 0 => log[i].res \in {"running", "zombie"}

\* C16: the output execute returns was collected from the process of this
\* call
C16_CurrentInvocationOnly ==
    (mpc = "returned" /\ ~ret[1].isNone) => self.stdout_pid = CurPid

\* the line of the k-th event put during this call
PutLine(k) ==
    LET i == CHOOSE i \in Entries("put") :
                 Cardinality({j \in Entries("put") : j <= i}) = k
    IN  log[i].line

\* the number a line's digits after "<host>:" denote, digit by position
PortValue(l) ==
    LET d == l.digits
        Pos[i \in 0 .. Len(d)] ==
            IF i = 0 THEN 0 ELSE Pos[i - 1] + d[i] * 10 ^ (Len(d) - i)
    IN  Pos[Len(d)]

\* C17: the callback is called with a port-disclosure line only after an
\* event was put for it, whatever the port; every event put during this call
\* is [circ_id, ("127.0.0.1", v)] with v the number its line shows
C17_PortPassedThrough ==
    /\ \A i \in Entries("cb") :
        script[log[i].line].conn =>
            \E j \in Entries("put") : j < i /\ log[j].line = log[i].line
    /\ \A k \in 1 .. Len(CallEvents) :
        CallEvents[k] = [circ_id |-> CommandArgs.circ_id,
                         addr |-> "127.0.0.1",
                         port |-> PortValue(script[PutLine(k)])]

C17_Witness ==
    /\ Len(CallEvents) = 2
    /\ \E k \in 1 .. 2 : CallEvents[k].port = 0
    /\ \E k \in 1 .. 2 : CallEvents[k].port > 65535
    /\ Cardinality(Entries("cb")) = 2

\* C13: whenever invoke_process puts an event, socket.socket is the original
\* constructor and the event carries the circ_id of the Command
C13_PutWithOrigSocket ==
    /\ \A i \in Entries("put") : log[i].res = CommandArgs.origsock
    /\ \A k \in 1 .. Len(CallEvents) :
        CallEvents[k].circ_id = CommandArgs.circ_id

\* C18: once the worker has ended and the closure has returned after its
\* function returned, socket.socket is the original constructor
C18_SwapNoNetEffect ==
    (/\ wpc = "dead"
     /\ cpc["c1"] = "returned"
     /\ cfunc["c1"] = "return"
     /\ cpc["c2"] = "idle")
    => socket = OrigSocket

\* C20: the process of this call was spawned with TORSOCKS_CONF_FILE naming
\* the temporary file of this call, and that file existed then
C20_SpawnEnvironment ==
    (ncalls > 0 /\ pstate[CurPid] # "unborn")
    => penv = [conf |-> fd, exists |-> TRUE]

====
